---------------------------- MODULE Spec2Model ----------------------------
(***************************************************************************)
(* A model of qutebrowser/keyinput/keyutils.py: the keystring tokenizer,   *)
(* KeyInfo rendering, and KeySequence (construction, parse, append_event,  *)
(* slicing, matches).                                                      *)
(*                                                                         *)
(* A Python string is a sequence of one-character strings.  A QKeySequence *)
(* is its array of four key slots (Qt's d->key[4]), zero-padded; a         *)
(* KeySequence is its _sequences list of such arrays.  A stored key is the *)
(* integer key | modifiers, as in the code.                                *)
(***************************************************************************)
EXTENDS Integers, Sequences, FiniteSets, TLC

VARIABLES
    keystr,      \* _parse_keystring: the string being tokenized
    pos,         \* _parse_keystring: number of characters consumed
    key,         \* _parse_keystring: the accumulation buffer
    special,     \* _parse_keystring: inside-angle-bracket mode
    tokens,      \* _parse_keystring: the tokens yielded so far
    pc,          \* position of the running operation
    entered,     \* the in-progress KeySequence (receiver of append_event)
    configured,  \* the configured KeySequence (from parse or the constructor)
    pressed,     \* key | modifiers of the events appended successfully, in press order
    last,        \* the last operation: its name, input, receiver, result, error
    verdict      \* the last matches() call: entered side, configured side, result

vars == <<keystr, pos, key, special, tokens, pc, entered, configured, pressed, last, verdict>>

(***************************************************************************)
(* Bounds of the model.                                                    *)
(***************************************************************************)
MaxStrLen == 4      \* longest keystring fed to the tokenizer, in characters
MaxKeys == 5        \* most keys appended to / constructed into a sequence
MaxPieces == 2      \* most binding pieces concatenated into a parsed keystring
MaxRecv == 1        \* longest receiver in the append_event event study

(***************************************************************************)
(* Characters and Python's str methods on them.                            *)
(***************************************************************************)
LowerChars == <<"a","b","c","d","e","f","g","h","i","j","k","l","m",
                "n","o","p","q","r","s","t","u","v","w","x","y","z">>
UpperChars == <<"A","B","C","D","E","F","G","H","I","J","K","L","M",
                "N","O","P","Q","R","S","T","U","V","W","X","Y","Z">>

IndexIn(c, s) == IF \E i \in 1..Len(s) : s[i] = c
                 THEN CHOOSE i \in 1..Len(s) : s[i] = c
                 ELSE 0

IsLowerChar(c) == IndexIn(c, LowerChars) > 0
IsUpperChar(c) == IndexIn(c, UpperChars) > 0

\* str.lower() / str.upper() of one character
LowerChar(c) == IF IsUpperChar(c) THEN LowerChars[IndexIn(c, UpperChars)] ELSE c
UpperChar(c) == IF IsLowerChar(c) THEN UpperChars[IndexIn(c, LowerChars)] ELSE c

StrLower(s) == [i \in 1..Len(s) |-> LowerChar(s[i])]
StrUpper(s) == [i \in 1..Len(s) |-> UpperChar(s[i])]

\* str.isupper(): at least one cased character and no lowercase one
StrIsUpper(s) == /\ \E i \in 1..Len(s) : IsUpperChar(s[i])
                 /\ \A i \in 1..Len(s) : ~IsLowerChar(s[i])

\* the code point of a character (the ones the model uses)
Ord(c) == IF IsLowerChar(c) THEN 96 + IndexIn(c, LowerChars)
          ELSE IF IsUpperChar(c) THEN 64 + IndexIn(c, UpperChars)
          ELSE CASE c = " " -> 32
                 [] c = "+" -> 43
                 [] c = "," -> 44
                 [] c = "-" -> 45
                 [] c = "2" -> 50
                 [] c = "<" -> 60
                 [] c = ">" -> 62
                 [] c = "@" -> 64
                 [] OTHER -> 63

\* the character of a code point (inverse of Ord on the model's characters)
Chr(n) == IF n \in 97..122 THEN LowerChars[n - 96]
          ELSE IF n \in 65..90 THEN UpperChars[n - 64]
          ELSE CASE n = 32 -> " "
                 [] n = 43 -> "+"
                 [] n = 44 -> ","
                 [] n = 45 -> "-"
                 [] n = 50 -> "2"
                 [] n = 60 -> "<"
                 [] n = 62 -> ">"
                 [] n = 64 -> "@"
                 [] OTHER -> "?"

\* s[i:j] of Python, 0-based, 0 <= i
PySlice(s, i, j) == IF j <= i THEN <<>> ELSE SubSeq(s, i + 1, IF j > Len(s) THEN Len(s) ELSE j)

StartsWith(s, p) == Len(p) <= Len(s) /\ SubSeq(s, 1, Len(p)) = p

\* str.replace(orig, repl): non-overlapping occurrences, left to right
RECURSIVE StrReplace(_, _, _)
StrReplace(s, orig, repl) ==
    IF Len(s) = 0 THEN <<>>
    ELSE IF StartsWith(s, orig)
         THEN repl \o StrReplace(SubSeq(s, Len(orig) + 1, Len(s)), orig, repl)
         ELSE <<s[1]>> \o StrReplace(Tail(s), orig, repl)

\* sep.join(parts)
RECURSIVE StrJoin(_, _)
StrJoin(sep, parts) ==
    IF Len(parts) = 0 THEN <<>>
    ELSE IF Len(parts) = 1 THEN parts[1]
    ELSE parts[1] \o sep \o StrJoin(sep, Tail(parts))

\* ''.join(parts)
RECURSIVE StrConcat(_)
StrConcat(parts) == IF Len(parts) = 0 THEN <<>> ELSE parts[1] \o StrConcat(Tail(parts))

(***************************************************************************)
(* Qt key codes and modifier bits.                                         *)
(***************************************************************************)
Key_nil == 0
Key_Space == 32
Key_Escape == 16777216          \* 0x01000000
Key_Tab == 16777217             \* 0x01000001
Key_Backtab == 16777218         \* 0x01000002
Key_Shift == 16777248           \* 0x01000020
Key_Control == 16777249         \* 0x01000021
Key_Meta == 16777250            \* 0x01000022
Key_Alt == 16777251             \* 0x01000023
Key_Mode_switch == 16781694     \* 0x0100117e
Key_unknown == 33554431         \* 0x01ffffff
MaxPrintable == 255             \* 0xff
ModBase == 33554432             \* 0x02000000: the lowest modifier bit

NoModifier == 0
ShiftModifier == ModBase
ControlModifier == 2 * ModBase
AltModifier == 4 * ModBase
MetaModifier == 8 * ModBase
KeypadModifier == 16 * ModBase
GroupSwitchModifier == 32 * ModBase

\* modifiers & bit, as a truth value
HasMod(modifiers, bit) == (modifiers \div bit) % 2 = 1

\* int(key) & ~modifier_mask and int(key) & modifier_mask, for 0 <= key < 2^31
\* (the mask is all of bits 25..30)
KeyPart(k) == k % ModBase
ModPart(k) == k - (k % ModBase)

\* key | int(modifiers)
KeyOr(k, modifiers) ==
    LET bits == {ShiftModifier, ControlModifier, AltModifier, MetaModifier,
                 KeypadModifier, GroupSwitchModifier}
        extra == {b \in bits : HasMod(modifiers, b) /\ ~HasMod(k, b)}
        RECURSIVE Sum(_)
        Sum(S) == IF S = {} THEN 0 ELSE LET b == CHOOSE b \in S : TRUE IN b + Sum(S \ {b})
    IN k + Sum(extra)

\* _MODIFIER_MAP: Qt::Key values to their Qt::KeyboardModifier value (0: not in the map)
_MODIFIER_MAP(k) == CASE k = Key_Shift -> ShiftModifier
                      [] k = Key_Control -> ControlModifier
                      [] k = Key_Alt -> AltModifier
                      [] k = Key_Meta -> MetaModifier
                      [] k = Key_Mode_switch -> GroupSwitchModifier
                      [] OTHER -> 0

is_printable(k) == k <= MaxPrintable /\ k \notin {Key_Space, Key_nil}

is_modifier_key(k) == _MODIFIER_MAP(k) # 0


(***************************************************************************)
(* Qt's QKeySequence, as far as keyutils.py uses it.                       *)
(***************************************************************************)
QKS_MaxKeyCount == 4

\* QKeySequence(k1, k2=0, k3=0, k4=0): the four key slots
QKeySequence_fromKeys(sub) == [i \in 1..QKS_MaxKeyCount |-> IF i <= Len(sub) THEN sub[i] ELSE 0]

\* QKeySequence::count(): the slots before the first zero
QKS_count(q) == IF \E i \in 1..QKS_MaxKeyCount : q[i] = 0
                THEN (CHOOSE i \in 1..QKS_MaxKeyCount : q[i] = 0 /\ \A j \in 1..(i-1) : q[j] # 0) - 1
                ELSE QKS_MaxKeyCount

\* iterating a QKeySequence (len() and [] of PyQt): its count() first keys
QKS_keys(q) == SubSeq(q, 1, QKS_count(q))

\* QKeySequence::matches(seq)
QKS_matches(user, seq) ==
    LET userN == QKS_count(user)
        seqN == QKS_count(seq)
    IN IF userN > seqN THEN "NoMatch"
       ELSE IF \E i \in 1..userN : user[i] # seq[i] THEN "NoMatch"
       ELSE IF userN = seqN THEN "ExactMatch" ELSE "PartialMatch"

\* the key names of Qt's table the model uses, lower-cased
QtKeyNames == {<<"t","a","b">>, <<"b","a","c","k","t","a","b">>, <<"e","s","c">>,
               <<"e","s","c","a","p","e">>, <<"s","p","a","c","e">>}

QtKeyByName(n) == CASE n = <<"t","a","b">> -> Key_Tab
                    [] n = <<"b","a","c","k","t","a","b">> -> Key_Backtab
                    [] n = <<"e","s","c">> -> Key_Escape
                    [] n = <<"e","s","c","a","p","e">> -> Key_Escape
                    [] n = <<"s","p","a","c","e">> -> Key_Space
                    [] OTHER -> Key_unknown

\* a modifier name of Qt with its '+' (0: none)
QtModByName(n) == CASE n = <<"c","t","r","l","+">> -> ControlModifier
                    [] n = <<"s","h","i","f","t","+">> -> ShiftModifier
                    [] n = <<"a","l","t","+">> -> AltModifier
                    [] n = <<"m","e","t","a","+">> -> MetaModifier
                    [] n = <<"n","u","m","+">> -> KeypadModifier
                    [] OTHER -> 0

\* QKeySequencePrivate::decodeString: one "Mod+Mod+Key" part to key | modifiers
QKS_decodeString(accel) ==
    LET sl == StrLower(accel)
        n == Len(sl)
        \* the '+' the modifier loop visits: every one but a leading one
        plus == {i \in 2..n : sl[i] = "+"}
        prev(i) == IF \E j \in plus : j < i
                   THEN (CHOOSE j \in plus : j < i /\ \A h \in plus : h < i => h <= j) + 1
                   ELSE 1
        sub(i) == SubSeq(sl, prev(i), i)
        badMod == \E i \in plus : Len(sub(i)) > 1 /\ QtModByName(sub(i)) = 0
        mods == {QtModByName(sub(i)) : i \in {j \in plus : Len(sub(j)) > 1}}
        \* lastIndexOf('+', length - 2), kept when > 0 (0-based)
        cut == {i \in 2..(n - 1) : sl[i] = "+"}
        p == IF cut = {} THEN 0 ELSE CHOOSE i \in cut : \A j \in cut : j <= i
        ref == SubSeq(sl, p + 1, n)
        base == IF Len(ref) = 1 THEN Ord(UpperChar(ref[1]))
                ELSE IF ref \in QtKeyNames THEN QtKeyByName(ref)
                ELSE Key_unknown
        RECURSIVE OrAll(_, _)
        OrAll(k, S) == IF S = {} THEN k
                       ELSE LET m == CHOOSE m \in S : TRUE IN OrAll(KeyOr(k, m), S \ {m})
    IN IF badMod \/ base = Key_unknown THEN Key_unknown ELSE OrAll(base, mods)

\* QKeySequence::assign: split on ',' (", " and ",," handled as Qt does) and
\* decode at most four parts
RECURSIVE QKS_assign(_, _)
QKS_assign(text, n) ==
    IF Len(text) = 0 \/ n >= QKS_MaxKeyCount THEN <<>>
    ELSE LET len == Len(text)
             at(i) == IF i + 1 <= len THEN text[i + 1] ELSE ""     \* 0-based
             p0 == IndexIn(",", text) - 1
             last0 == p0 = -1 \/ p0 = len - 1
             p1 == IF at(p0 + 1) = "," THEN p0 + 1 ELSE p0
             spc == at(p1 + 1) = " "
             p == IF last0 THEN -1 ELSE IF spc THEN p1 + 1 ELSE p1
             diff == IF ~last0 /\ spc THEN 1 ELSE 0
             part == IF p = -1 THEN text ELSE SubSeq(text, 1, p - diff)
             rest == IF p = -1 THEN <<>> ELSE SubSeq(text, p + 2, len)
         IN <<QKS_decodeString(part)>> \o QKS_assign(rest, n + 1)

\* QKeySequence(str)
QKeySequence_fromString(text) == QKeySequence_fromKeys(QKS_assign(text, 0))

\* QKeySequence(key).toString() for one key without modifiers: Qt's keyName
QtKeyName(k) == IF k # 0 /\ k < Key_Escape /\ k # Key_Space THEN <<UpperChar(Chr(k))>>
                ELSE CASE k = Key_Tab -> <<"T","a","b">>
                       [] k = Key_Backtab -> <<"B","a","c","k","t","a","b">>
                       [] k = Key_Escape -> <<"E","s","c">>
                       [] k = Key_Space -> <<"S","p","a","c","e">>
                       [] OTHER -> <<>>

\* QKeySequence(modifiers).toString(): "Meta+Ctrl+Alt+Shift+Num+", each when set
QtModifierString(modifiers) ==
    (IF HasMod(modifiers, MetaModifier) THEN <<"M","e","t","a","+">> ELSE <<>>)
    \o (IF HasMod(modifiers, ControlModifier) THEN <<"C","t","r","l","+">> ELSE <<>>)
    \o (IF HasMod(modifiers, AltModifier) THEN <<"A","l","t","+">> ELSE <<>>)
    \o (IF HasMod(modifiers, ShiftModifier) THEN <<"S","h","i","f","t","+">> ELSE <<>>)
    \o (IF HasMod(modifiers, KeypadModifier) THEN <<"N","u","m","+">> ELSE <<>>)

(***************************************************************************)
(* _key_to_string, _parse_keystring, _parse_special_key, _parse_single_key *)
(***************************************************************************)
\* the entries of special_names for the keys of the model, then Qt's name
_key_to_string(k) ==
    CASE k = Key_Shift -> <<"S","h","i","f","t">>
      [] k = Key_Control -> <<"C","o","n","t","r","o","l">>
      [] k = Key_Meta -> <<"M","e","t","a">>
      [] k = Key_Alt -> <<"A","l","t">>
      [] k = Key_Mode_switch -> <<"M","o","d","e"," ","s","w","i","t","c","h">>
      [] k = Key_unknown -> <<"U","n","k","n","o","w","n">>
      [] k = Key_Escape -> <<"E","s","c","a","p","e">>
      [] k = Key_nil -> <<"n","i","l">>
      [] OTHER -> QtKeyName(k)

_parse_special_key(s) ==
    LET s0 == StrLower(s)
        s1 == StrReplace(s0, <<"c","o","n","t","r","o","l">>, <<"c","t","r","l">>)
        s2 == StrReplace(s1, <<"w","i","n","d","o","w","s">>, <<"m","e","t","a">>)
        s3 == StrReplace(s2, <<"m","o","d","1">>, <<"a","l","t">>)
        s4 == StrReplace(s3, <<"m","o","d","4">>, <<"m","e","t","a">>)
        s5 == StrReplace(s4, <<"l","e","s","s">>, <<"<">>)
        s6 == StrReplace(s5, <<"g","r","e","a","t","e","r">>, <<">">>)
        m1 == StrReplace(s6, <<"c","t","r","l","-">>, <<"c","t","r","l","+">>)
        m2 == StrReplace(m1, <<"m","e","t","a","-">>, <<"m","e","t","a","+">>)
        m3 == StrReplace(m2, <<"a","l","t","-">>, <<"a","l","t","+">>)
    IN StrReplace(m3, <<"s","h","i","f","t","-">>, <<"s","h","i","f","t","+">>)

_parse_single_key(s) == IF StrIsUpper(s) THEN <<"S","h","i","f","t","+">> \o s ELSE s

\* (a '<' that empties the buffer)
TokStep_LtClearsBuffer(c, k, sp) ==
    IF c = ">"
    THEN IF sp
         THEN [key |-> <<>>, special |-> FALSE, out |-> <<_parse_special_key(k)>>, err |-> FALSE]
         ELSE [key |-> k, special |-> sp, out |-> <<<<">">>>>, err |-> k # <<>>]
    ELSE IF c = "<"
    THEN [key |-> <<>>, special |-> TRUE, out |-> <<>>, err |-> FALSE]
    ELSE IF sp
    THEN [key |-> Append(k, c), special |-> sp, out |-> <<>>, err |-> FALSE]
    ELSE [key |-> k, special |-> sp, out |-> <<_parse_single_key(<<c>>)>>, err |-> FALSE]

\* (a closing '>' that leaves the buffer)
TokStep_FlushKeepsBuffer(c, k, sp) ==
    IF c = ">"
    THEN IF sp
         THEN [key |-> k, special |-> FALSE, out |-> <<_parse_special_key(k)>>, err |-> FALSE]
         ELSE [key |-> k, special |-> sp, out |-> <<<<">">>>>, err |-> k # <<>>]
    ELSE IF c = "<"
    THEN [key |-> k, special |-> TRUE, out |-> <<>>, err |-> FALSE]
    ELSE IF sp
    THEN [key |-> Append(k, c), special |-> sp, out |-> <<>>, err |-> FALSE]
    ELSE [key |-> k, special |-> sp, out |-> <<_parse_single_key(<<c>>)>>, err |-> FALSE]

\* one iteration of the loop of _parse_keystring on character c: the new buffer
\* and mode, the tokens yielded, and whether 'assert not key' failed
TokStep(c, k, sp) ==
    IF c = ">"
    THEN IF sp
         THEN [key |-> <<>>, special |-> FALSE, out |-> <<_parse_special_key(k)>>, err |-> FALSE]
         ELSE [key |-> k, special |-> sp, out |-> <<<<">">>>>, err |-> k # <<>>]
    ELSE IF c = "<"
    THEN [key |-> k, special |-> TRUE, out |-> <<>>, err |-> FALSE]
    ELSE IF sp
    THEN [key |-> Append(k, c), special |-> sp, out |-> <<>>, err |-> FALSE]
    ELSE [key |-> k, special |-> sp, out |-> <<_parse_single_key(<<c>>)>>, err |-> FALSE]

\* (an unterminated '<' whose buffered characters are lost)
TokEnd_DropsBuffer(k, sp) == IF sp THEN <<<<"<">>>> ELSE <<>>

\* the code after the loop: the tokens yielded for an unterminated '<'
TokEnd(k, sp) ==
    IF sp THEN <<<<"<">>>> \o [i \in 1..Len(k) |-> _parse_single_key(<<k[i]>>)]
    ELSE <<>>

\* list(_parse_keystring(s)): the tokens, and whether an assertion failed
RECURSIVE TokRun(_, _, _, _)
TokRun(s, k, sp, acc) ==
    IF Len(s) = 0 THEN [tokens |-> acc \o TokEnd(k, sp), err |-> FALSE]
    ELSE LET r == TokStep(s[1], k, sp)
         IN IF r.err THEN [tokens |-> acc \o r.out, err |-> TRUE]
            ELSE TokRun(Tail(s), r.key, r.special, acc \o r.out)

_parse_keystring(s) == TokRun(s, <<>>, FALSE, <<>>)

(***************************************************************************)
(* KeyInfo                                                                 *)
(***************************************************************************)
\* KeyInfo.__str__.  For a printable key Qt's name is its one character, so the
\* ValueError for an empty name and 'assert len(key_string) == 1' do not arise.
KeyInfo_str(info) ==
    LET key_string == _key_to_string(info.key)
    IN IF _MODIFIER_MAP(info.key) # 0
       THEN LET m == IF HasMod(info.modifiers, _MODIFIER_MAP(info.key))
                     THEN info.modifiers - _MODIFIER_MAP(info.key)
                     ELSE info.modifiers
            IN <<"<">> \o QtModifierString(m) \o key_string \o <<">">>
       ELSE IF is_printable(info.key) /\ info.modifiers = ShiftModifier
       THEN StrUpper(key_string)
       ELSE IF is_printable(info.key) /\ info.modifiers = NoModifier
       THEN StrLower(key_string)
       ELSE <<"<">> \o QtModifierString(info.modifiers)
            \o (IF is_printable(info.key) THEN StrLower(key_string) ELSE key_string)
            \o <<">">>

(***************************************************************************)
(* KeySequence: the value is the list _sequences.                          *)
(***************************************************************************)
_MAX_LEN == 4

\* utils.chunk(elems, n): successive n-sized pieces of elems
RECURSIVE utils_chunk(_, _)
utils_chunk(elems, n) ==
    IF Len(elems) = 0 THEN <<>>
    ELSE IF Len(elems) <= n THEN <<elems>>
    ELSE <<SubSeq(elems, 1, n)>> \o utils_chunk(SubSeq(elems, n + 1, Len(elems)), n)

\* KeySequence._iter_keys
RECURSIVE _iter_keys(_)
_iter_keys(seqs) == IF Len(seqs) = 0 THEN <<>> ELSE QKS_keys(seqs[1]) \o _iter_keys(Tail(seqs))

\* KeySequence.__iter__: the KeyInfo of each stored key
KeySequence_iter(seqs) ==
    LET ks == _iter_keys(seqs)
    IN [i \in 1..Len(ks) |-> [key |-> KeyPart(ks[i]), modifiers |-> ModPart(ks[i])]]

\* KeySequence.__len__ and __bool__
KeySequence_len(seqs) == Len(_iter_keys(seqs))
KeySequence_bool(seqs) == Len(seqs) > 0

\* KeySequence.__str__
KeySequence_str(seqs) ==
    LET infos == KeySequence_iter(seqs)
    IN StrConcat([i \in 1..Len(infos) |-> KeyInfo_str(infos[i])])

\* KeySequence._validate: the error it ends with ("none": it returns)
_validate(seqs) ==
    LET infos == KeySequence_iter(seqs)
        bad(i) == ~(Key_Space <= infos[i].key /\ infos[i].key <= Key_unknown)
        unk(i) == infos[i].key = Key_unknown
        hits == {i \in 1..Len(infos) : bad(i) \/ unk(i)}
        first == CHOOSE i \in hits : \A j \in hits : i <= j
    IN IF hits # {}
       THEN IF bad(first) THEN "AssertionError" ELSE "KeyParseError"
       ELSE IF \E i \in 1..Len(seqs) : QKS_count(seqs[i]) = 0 THEN "AssertionError"
       ELSE "none"

\* KeySequence.__init__(*keys): the error raised ("none": constructed) and _sequences
KeySequence_init(keys) ==
    LET subs == utils_chunk(keys, _MAX_LEN)
        seqs == [i \in 1..Len(subs) |-> QKeySequence_fromKeys(subs[i])]
    IN IF Len(keys) > 0 /\ ~KeySequence_bool(seqs)
       THEN [err |-> "AssertionError", seqs |-> seqs]
       ELSE [err |-> _validate(seqs), seqs |-> seqs]

\* KeySequence.__getitem__(slice(i, j))
KeySequence_getslice(seqs, i, j) == KeySequence_init(PySlice(_iter_keys(seqs), i, j))

\* (matches without the comparison of the chunk counts)
matches_IgnoreCount(self, other) ==
    LET n == IF Len(self) < Len(other) THEN Len(self) ELSE Len(other)
        ne == {i \in 1..n : QKS_matches(self[i], other[i]) # "ExactMatch"}
    IN IF ne # {} THEN QKS_matches(self[CHOOSE i \in ne : \A j \in ne : i <= j],
                                   other[CHOOSE i \in ne : \A j \in ne : i <= j])
       ELSE "ExactMatch"

\* KeySequence.matches(other)
matches(self, other) ==
    IF Len(self) > Len(other) THEN "NoMatch"
    ELSE LET ne == {i \in 1..Len(self) : QKS_matches(self[i], other[i]) # "ExactMatch"}
             first == CHOOSE i \in ne : \A j \in ne : i <= j
         IN IF ne # {} THEN QKS_matches(self[first], other[first])
            ELSE IF Len(self) = Len(other) THEN "ExactMatch"
            ELSE IF Len(self) < Len(other) THEN "PartialMatch"
            ELSE "Unreachable"

\* (Shift dropped from every printable key, whatever else is held or typed)
append_event_ShiftAlwaysDropped(self, ev) ==
    LET k == IF HasMod(ev.modifiers, ShiftModifier) /\ ev.key = Key_Backtab
             THEN Key_Tab ELSE ev.key
        modifiers == IF HasMod(ev.modifiers, ShiftModifier) /\ is_printable(ev.key)
                     THEN ev.modifiers - ShiftModifier ELSE ev.modifiers
    IN IF ev.key = Key_nil THEN [err |-> "KeyParseError", seqs |-> <<>>]
       ELSE KeySequence_init(Append(_iter_keys(self), KeyOr(k, modifiers)))

\* (Backtab stored as it comes)
append_event_NoBacktabRewrite(self, ev) ==
    LET modifiers == IF /\ ev.modifiers = ShiftModifier
                        /\ is_printable(ev.key)
                        /\ ~StrIsUpper(ev.text)
                     THEN NoModifier ELSE ev.modifiers
    IN IF ev.key = Key_nil THEN [err |-> "KeyParseError", seqs |-> <<>>]
       ELSE KeySequence_init(Append(_iter_keys(self), KeyOr(ev.key, modifiers)))

\* KeySequence.append_event(ev): ev is [key, modifiers, text]
append_event(self, ev) ==
    LET k == IF HasMod(ev.modifiers, ShiftModifier) /\ ev.key = Key_Backtab
             THEN Key_Tab ELSE ev.key
        modifiers == IF /\ ev.modifiers = ShiftModifier
                        /\ is_printable(ev.key)
                        /\ ~StrIsUpper(ev.text)
                     THEN NoModifier ELSE ev.modifiers
    IN IF ev.key = Key_nil THEN [err |-> "KeyParseError", seqs |-> <<>>]
       ELSE KeySequence_init(Append(_iter_keys(self), KeyOr(k, modifiers)))

\* KeySequence.parse(keystr)
parse(s) ==
    LET tk == _parse_keystring(s)
        subs == utils_chunk(tk.tokens, _MAX_LEN)
        seqs == [i \in 1..Len(subs) |-> QKeySequence_fromString(StrJoin(<<",", " ">>, subs[i]))]
    IN IF tk.err THEN [err |-> "AssertionError", seqs |-> <<>>]
       ELSE IF Len(s) > 0 /\ ~KeySequence_bool(seqs) THEN [err |-> "AssertionError", seqs |-> seqs]
       ELSE [err |-> _validate(seqs), seqs |-> seqs]

(***************************************************************************)
(* The inputs the operations are run on.                                   *)
(***************************************************************************)
StringsUpTo(chars, n) == UNION {[1..m -> chars] : m \in 0..n}

Key_A == Ord("A")
Key_B == Ord("B")
Key_At == Ord("@")
Key_BelowSpace == 16    \* a key code below Key_Space

NoOp == [op |-> "none", arg |-> <<>>, recv |-> <<>>, res |-> <<>>, err |-> "none"]
NoVerdict == [e |-> <<>>, c |-> <<>>, v |-> "none"]

\* characters of the keystrings the tokenizer is stepped through
TokChars == {"<", ">", "a", "b", "c", "A"}

\* KeySequence(*keys) calls: nil, out-of-range and valid key codes
CtorKeys == {Key_nil, Key_BelowSpace, Key_A}

\* keystrings of single-key tokens, brackets included
ParseChars == {"a", "<", ">"}

\* key presses typed into the in-progress sequence
TypedEvents == {[key |-> Key_A, modifiers |-> NoModifier, text |-> <<"a">>],
                [key |-> Key_B, modifiers |-> NoModifier, text |-> <<"b">>]}

\* key presses of the event study
StudyEvents == [key : {Key_nil, Key_At, Key_A, Key_Tab, Key_Backtab},
                modifiers : {NoModifier, ShiftModifier, ControlModifier,
                             ShiftModifier + ControlModifier},
                text : {<<>>, <<"a">>, <<"A">>, <<"@">>}]

\* binding pieces a configuration keystring is written from
Pieces == {<<"a">>, <<"A">>, <<"2">>,
           <<"<","l","e","s","s",">">>, <<"<","g","r","e","a","t","e","r",">">>,
           <<"<","S","h","i","f","t","+","2",">">>,
           <<"<","C","t","r","l","-","S","h","i","f","t","-","x",">">>,
           <<"<","T","a","b",">">>, <<"<","f","o","o",">">>}

PieceStrings == {StrConcat(ps) : ps \in StringsUpTo(Pieces, MaxPieces)}

(***************************************************************************)
(* The tokenizer, one loop iteration per step.                             *)
(***************************************************************************)
TokRead(c) ==
    /\ pc = "run"
    /\ pos < Len(keystr)
    /\ keystr[pos + 1] = c
    /\ LET r == TokStep(c, key, special)
       IN /\ key' = r.key
          /\ special' = r.special
          /\ tokens' = tokens \o r.out
          /\ pc' = IF r.err THEN "assert" ELSE "run"
    /\ pos' = pos + 1
    /\ UNCHANGED <<keystr, entered, configured, pressed, last, verdict>>

\* '>' closing a bracket: the buffer is normalized and yielded
ReadGtSpecial == special /\ TokRead(">")

\* '>' in plain mode: yielded as a literal, then 'assert not key'
ReadGtPlain == ~special /\ TokRead(">")

\* '<': special mode begins
ReadLt == pc = "run" /\ TokRead("<")

\* any other character inside a bracket: buffered
ReadBuffered == special /\ \E c \in TokChars \ {"<", ">"} : TokRead(c)

\* any other character in plain mode: yielded as a single key
ReadPlain == ~special /\ \E c \in TokChars \ {"<", ">"} : TokRead(c)

\* the end of the string
TokFinish ==
    /\ pc = "run"
    /\ pos = Len(keystr)
    /\ tokens' = tokens \o TokEnd(key, special)
    /\ pc' = "done"
    /\ UNCHANGED <<keystr, pos, key, special, entered, configured, pressed, last, verdict>>

InitTok ==
    /\ keystr \in StringsUpTo(TokChars, MaxStrLen)
    /\ pos = 0
    /\ key = <<>>
    /\ special = FALSE
    /\ tokens = <<>>
    /\ pc = "run"
    /\ entered = <<>>
    /\ configured = <<>>
    /\ pressed = <<>>
    /\ last = NoOp
    /\ verdict = NoVerdict

NextTok == ReadGtSpecial \/ ReadGtPlain \/ ReadLt \/ ReadBuffered \/ ReadPlain \/ TokFinish

SpecTok == InitTok /\ [][NextTok]_vars

(***************************************************************************)
(* KeySequence operations.                                                 *)
(***************************************************************************)
tokvars == <<keystr, pos, key, special, tokens>>

\* configured = KeySequence(*keys)
Construct(keys) ==
    /\ pc = "config"
    /\ LET r == KeySequence_init(keys)
       IN /\ last' = [op |-> "init", arg |-> keys, recv |-> <<>>, res |-> r.seqs, err |-> r.err]
          /\ configured' = IF r.err = "none" THEN r.seqs ELSE configured
          /\ pc' = IF r.err = "none" THEN "typing" ELSE "raised"
    /\ UNCHANGED <<tokvars, entered, pressed, verdict>>

\* configured = KeySequence.parse(s)
Parse(s) ==
    /\ pc = "config"
    /\ LET r == parse(s)
       IN /\ last' = [op |-> "parse", arg |-> s, recv |-> <<>>, res |-> r.seqs, err |-> r.err]
          /\ configured' = IF r.err = "none" THEN r.seqs ELSE configured
          /\ pc' = IF r.err = "none" THEN "typing" ELSE "raised"
    /\ UNCHANGED <<tokvars, entered, pressed, verdict>>

\* entered = entered.append_event(ev)
AppendEvent(ev, maxlen) ==
    /\ pc = "typing"
    /\ KeySequence_len(entered) < maxlen
    /\ LET r == append_event(entered, ev)
       IN /\ last' = [op |-> "append_event", arg |-> ev, recv |-> entered,
                      res |-> r.seqs, err |-> r.err]
          /\ entered' = IF r.err = "none" THEN r.seqs ELSE entered
          /\ pressed' = IF r.err = "none"
                        THEN Append(pressed, KeyOr(ev.key, ev.modifiers))
                        ELSE pressed
    /\ verdict' = NoVerdict
    /\ UNCHANGED <<tokvars, pc, configured>>

\* entered = entered[i:j], for indices from the start (no negative ones)
Slice(i, j) ==
    /\ pc = "typing"
    /\ 0 <= i /\ 0 <= j
    /\ LET r == KeySequence_getslice(entered, i, j)
       IN /\ last' = [op |-> "getitem", arg |-> <<i, j>>, recv |-> <<>>,
                      res |-> r.seqs, err |-> r.err]
          /\ entered' = IF r.err = "none" THEN r.seqs ELSE entered
          /\ pressed' = IF r.err = "none" THEN PySlice(pressed, i, j) ELSE pressed
    /\ verdict' = NoVerdict
    /\ UNCHANGED <<tokvars, pc, configured>>

\* entered.matches(configured), or configured.matches(entered) when rev
Matches(rev) ==
    /\ pc = "typing"
    /\ LET e == IF rev THEN configured ELSE entered
           c == IF rev THEN entered ELSE configured
       IN verdict' = [e |-> e, c |-> c, v |-> matches(e, c)]
    /\ UNCHANGED <<tokvars, pc, entered, configured, pressed, last>>

\* parse(str(configured)).matches(configured)
RoundTrip ==
    /\ pc = "typing"
    /\ last.op = "parse"
    /\ LET rendered == KeySequence_str(configured)
           r == parse(rendered)
       IN /\ last' = [op |-> "roundtrip", arg |-> rendered, recv |-> configured,
                      res |-> r.seqs, err |-> r.err]
          /\ verdict' = [e |-> r.seqs, c |-> configured,
                         v |-> IF r.err = "none" THEN matches(r.seqs, configured) ELSE r.err]
    /\ pc' = "done"
    /\ UNCHANGED <<tokvars, entered, configured, pressed>>

InitSeq(start) ==
    /\ keystr = <<>>
    /\ pos = 0
    /\ key = <<>>
    /\ special = FALSE
    /\ tokens = <<>>
    /\ pc = start
    /\ entered = <<>>
    /\ configured = <<>>
    /\ pressed = <<>>
    /\ last = NoOp
    /\ verdict = NoVerdict

\* a binding is configured, then keys are typed and matched against it
Init == InitSeq("config")

Next ==
    \/ \E keys \in StringsUpTo(CtorKeys, MaxKeys) : Construct(keys)
    \/ \E s \in StringsUpTo(ParseChars, MaxStrLen) : Parse(s)
    \/ \E ev \in TypedEvents : AppendEvent(ev, MaxKeys)
    \/ \E i \in 0..1 : Slice(i, KeySequence_len(entered) - (1 - i))
    \/ \E rev \in BOOLEAN : Matches(rev)

Spec == Init /\ [][Next]_vars

\* the event study: every kind of key press appended to short receivers
InitEvent == InitSeq("typing")

NextEvent == \E ev \in StudyEvents : AppendEvent(ev, MaxRecv + 1)

SpecEvent == InitEvent /\ [][NextEvent]_vars

\* the round trip of configured bindings through str() and parse()
NextRT == (\E s \in PieceStrings : Parse(s)) \/ RoundTrip

SpecRT == Init /\ [][NextRT]_vars

(***************************************************************************)
(* Properties of the tokenizer (checked under SpecTok).                    *)
(***************************************************************************)
\* the mode after the first n characters of s, read off the string: some '<'
\* with no '>' after it
SpecialAfter(s, n) == \E i \in 1..n : s[i] = "<" /\ \A j \in (i + 1)..n : s[j] # ">"

\* the step that reads a '<'
ReadingLt == pc = "run" /\ pos < Len(keystr) /\ keystr[pos + 1] = "<"

\* C9 as stated: right after any '<' the tokenizer is in special mode with an
\* empty buffer, also when the '<' is read in special mode with characters buffered.
C9_LtEntersSpecialWithEmptyBuffer == [][ReadingLt => (special' /\ key' = <<>>)]_vars

\* C9 amended: right after any '<' the tokenizer is in special mode and the
\* buffer is what it was before the '<': empty when the '<' is read in plain
\* mode, the characters already buffered when it is read in special mode.
C9_LtEntersSpecialKeepingBuffer ==
    [][ReadingLt => (special' /\ key' = key /\ (~special => key' = <<>>))]_vars

\* C9 witness: a '<' has been read in special mode with characters buffered
C9_Witness ==
    /\ pc = "run" /\ pos >= 3
    /\ keystr[pos] = "<" /\ SpecialAfter(keystr, pos - 1)
    /\ special /\ key # <<>>

\* C10: in plain mode the buffer is empty, 'assert not key' never fails, and a
\* '>' read in plain mode is the token just yielded.
C10_PlainModeBufferEmpty ==
    /\ pc # "assert"
    /\ ~special => key = <<>>
    /\ (pc = "run" /\ pos >= 1 /\ keystr[pos] = ">" /\ ~SpecialAfter(keystr, pos - 1))
          => (Len(tokens) >= 1 /\ tokens[Len(tokens)] = <<">">>)

\* C10 witness: a '>' has been read in plain mode after a closed bracket
C10_Witness ==
    /\ pc = "run" /\ pos >= 3
    /\ keystr[pos] = ">" /\ ~SpecialAfter(keystr, pos - 1)
    /\ \E i \in 1..(pos - 2) : keystr[i] = "<" /\ keystr[i + 1] # ">"
    /\ tokens[Len(tokens)] = <<">">>

\* C6: a string that ends inside an unterminated '<' is tokenized without an
\* error into the tokens of the text before that '<', a literal '<', and each
\* buffered character as its own token (an uppercase letter as Shift+letter);
\* '<abc' gives '<', 'a', 'b', 'c'.
C6_UnterminatedBracketRecovered ==
    LET n == Len(keystr)
        open == {i \in 1..n : keystr[i] = "<" /\ \A j \in i..n : keystr[j] # ">"}
        f == CHOOSE i \in open : \A j \in open : i <= j
        NotLt(c) == c # "<"
        buffered == SelectSeq(SubSeq(keystr, f + 1, n), NotLt)
        single(c) == IF IsUpperChar(c) THEN <<"S","h","i","f","t","+", c>> ELSE <<c>>
    IN /\ SpecialAfter(keystr, n) =>
            /\ pc # "assert"
            /\ pc = "done" =>
                 /\ key = buffered
                 /\ tokens = _parse_keystring(SubSeq(keystr, 1, f - 1)).tokens
                             \o <<<<"<">>>> \o [i \in 1..Len(buffered) |-> single(buffered[i])]
       /\ (pc = "done" /\ keystr = <<"<","a","b","c">>)
            => tokens = <<<<"<">>, <<"a">>, <<"b">>, <<"c">>>>

\* C6 witness: '<abc' has been tokenized to its four tokens
C6_Witness ==
    /\ pc = "done" /\ keystr = <<"<","a","b","c">>
    /\ special /\ key = <<"a","b","c">> /\ Len(tokens) = 4

(***************************************************************************)
(* Properties of matches (checked under Spec).                             *)
(***************************************************************************)
IsPrefix(s, t) == Len(s) <= Len(t) /\ SubSeq(t, 1, Len(s)) = s

\* the three-way prefix match of two key lists
PrefixVerdict(s, t) == IF s = t THEN "ExactMatch"
                       ELSE IF IsPrefix(s, t) THEN "PartialMatch"
                       ELSE "NoMatch"

\* C1: matches() is NoMatch when the entered side has more chunks; else the
\* verdict of the first aligned chunk pair that is not an ExactMatch; else
\* ExactMatch for equal chunk counts and PartialMatch for fewer entered chunks.
\* The Unreachable branch is never taken.
C1_MatchesByChunks ==
    verdict.v # "none" =>
        LET e == verdict.e
            c == verdict.c
            cv(i) == PrefixVerdict(QKS_keys(e[i]), QKS_keys(c[i]))
            ne == {i \in 1..Len(e) : i <= Len(c) /\ cv(i) # "ExactMatch"}
        IN /\ verdict.v # "Unreachable"
           /\ verdict.v = IF Len(e) > Len(c) THEN "NoMatch"
                          ELSE IF ne # {} THEN cv(CHOOSE i \in ne : \A j \in ne : i <= j)
                          ELSE IF Len(e) = Len(c) THEN "ExactMatch"
                          ELSE "PartialMatch"

\* C1 witness: a sequence of fewer chunks, all of them exact, matched partially,
\* the first four keys being followed by more configured chunks
C1_Witness ==
    /\ verdict.v = "PartialMatch"
    /\ Len(verdict.e) >= 1
    /\ Len(verdict.e) < Len(verdict.c)
    /\ \A i \in 1..Len(verdict.e) : QKS_keys(verdict.e[i]) = QKS_keys(verdict.c[i])

\* C2 as stated: the verdict of matches() is the prefix verdict of the two
\* flattened key lists, for sequences from parse, the constructor, append_event.
C2_MatchesByFlattenedKeys ==
    verdict.v # "none" =>
        verdict.v = PrefixVerdict(_iter_keys(verdict.e), _iter_keys(verdict.c))

\* every chunk holds 1..4 keys and every chunk but the last holds 4
Canonical(seqs) ==
    \A i \in 1..Len(seqs) :
        /\ QKS_count(seqs[i]) \in 1.._MAX_LEN
        /\ i < Len(seqs) => QKS_count(seqs[i]) = _MAX_LEN

\* C8 as stated: every reachable KeySequence is canonically chunked, the keys
\* of the in-progress sequence are the appended keys in press order (the typed
\* events carry no Shift, so each is stored as pressed), and sequences of the
\* same keys are equal.
C8_ChunkingCanonical ==
    /\ Canonical(entered)
    /\ Canonical(configured)
    /\ _iter_keys(entered) = pressed
    /\ _iter_keys(entered) = _iter_keys(configured) => entered = configured

\* C5 as stated: a failed construction is reported as KeyParseError.
C5_OnlyKeyParseError == last.err \in {"none", "KeyParseError"}

(***************************************************************************)
(* Properties of append_event (checked under SpecEvent).                   *)
(***************************************************************************)
\* the key stored by the last append_event
StoredKey == LET ks == _iter_keys(last.res) IN ks[Len(ks)]

\* C4: append_event stores the event's modifiers unchanged, except that it
\* stores none when the modifiers are exactly Shift, the key is printable and
\* the text is not uppercase; Shift+@ with text "@" renders as @.
C4_ShiftDropRule ==
    (last.op = "append_event" /\ last.err = "none") =>
        LET ev == last.arg
            drop == /\ ev.modifiers = ShiftModifier
                    /\ ev.key \in (1..MaxPrintable) \ {Key_Space}
                    /\ ~StrIsUpper(ev.text)
        IN /\ ModPart(StoredKey) = IF drop THEN NoModifier ELSE ev.modifiers
           /\ KeyPart(StoredKey) = IF ev.key = Key_Backtab /\ HasMod(ev.modifiers, ShiftModifier)
                                   THEN Key_Tab ELSE ev.key
           /\ (ev.key = Key_At /\ ev.modifiers = ShiftModifier /\ ev.text = <<"@">>)
                => KeyInfo_str([key |-> KeyPart(StoredKey), modifiers |-> ModPart(StoredKey)])
                   = <<"@">>

\* C4 witness: Shift+@ producing "@" has been appended to a non-empty sequence
C4_Witness ==
    /\ last.op = "append_event" /\ last.err = "none"
    /\ last.arg = [key |-> Key_At, modifiers |-> ShiftModifier, text |-> <<"@">>]
    /\ Len(last.recv) = 1
    /\ StoredKey = Key_At

\* C7: a Backtab event with Shift gives the KeySequence the Tab event with the
\* same modifiers gives (Tab with those modifiers appended, same rendering); a
\* Backtab event without Shift is stored as Backtab.
C7_BacktabRewrite ==
    (last.op = "append_event" /\ last.arg.key = Key_Backtab) =>
        LET ev == last.arg
            tab == append_event(last.recv, [ev EXCEPT !.key = Key_Tab])
        IN /\ last.err = "none"
           /\ HasMod(ev.modifiers, ShiftModifier) =>
                /\ _iter_keys(last.res) = Append(_iter_keys(last.recv), Key_Tab + ev.modifiers)
                /\ tab.err = "none" /\ tab.seqs = last.res
                /\ KeySequence_str(tab.seqs) = KeySequence_str(last.res)
           /\ ~HasMod(ev.modifiers, ShiftModifier) =>
                _iter_keys(last.res) = Append(_iter_keys(last.recv), Key_Backtab + ev.modifiers)

\* C7 witness: Ctrl+Shift+Backtab has been appended to a non-empty sequence
C7_Witness ==
    /\ last.op = "append_event" /\ last.err = "none"
    /\ last.arg.key = Key_Backtab
    /\ last.arg.modifiers = ShiftModifier + ControlModifier
    /\ Len(last.recv) = 1
    /\ StoredKey = Key_Tab + ShiftModifier + ControlModifier

(***************************************************************************)
(* The round trip (checked under SpecRT).                                  *)
(***************************************************************************)
\* C3 as stated: parse(str(s)) matches s with ExactMatch for every parsed s.
C3_RoundTripExact == last.op = "roundtrip" => verdict.v = "ExactMatch"

=============================================================================
